---- MODULE Spec2Model ----
(***************************************************************************)
(* Model of Message::parse (src/lib.rs): one IRC line is cut into tags,    *)
(* prefix, command and params by three stages sharing the cursor pos_head. *)
(*                                                                         *)
(* A &str is modelled as the sequence of its UTF-8 bytes.  Every index the *)
(* code computes (find, pos_head, pos_tail, loc) is a byte offset, 0-based *)
(* as in Rust; slicing at an offset that is not a char boundary panics.    *)
(* Option<T> is modelled as a sequence of length 0 (None) or 1 (Some).     *)
(***************************************************************************)
EXTENDS Integers, Sequences, FiniteSets, TLC

\* Longest free part of an input line, in bytes.
MaxLen == 4

\* The two bytes of one two-byte UTF-8 character (U+00E9).
Lead == "xC3"
Cont == "xA9"

\* The bytes input lines are built from: every delimiter the code looks for,
\* one ordinary letter, one ASCII whitespace that is not a space, and one
\* multi-byte character.
Bytes == {"@", " ", ":", ";", "=", "!", "a", "\t", Lead, Cont}

\* A &str is valid UTF-8: the two bytes of the character come together.
IsUtf8(s) ==
  \A i \in 1..Len(s) :
    /\ s[i] = Lead => (i < Len(s) /\ s[i + 1] = Cont)
    /\ s[i] = Cont => (i > 1 /\ s[i - 1] = Lead)

Strings(n) == {s \in UNION {[1..k -> Bytes] : k \in 0..n} : IsUtf8(s)}

\* Well-formed leading blocks put in front of the free part, so that lines
\* with a tag block, a prefix block and params are reached.
TagBlocks == {<<>>, <<"@", "a", "=", "a", ";", "=", " ">>}
PrefixBlocks == {<<>>, <<":", "a", "!", "a", "@", "a", " ">>, <<":", "!", " ">>}

Inputs == {t \o p \o r : t \in TagBlocks, p \in PrefixBlocks, r \in Strings(MaxLen)}

None == <<>>
Some(x) == <<x>>

Min(S) == CHOOSE x \in S : \A y \in S : x <= y

EmptyInput == "Nothing found to parse"
MissingCommand == "No command found"

----
\* str primitives, on byte offsets.

is_empty(s) == Len(s) = 0

starts_with(s, c) == Len(s) > 0 /\ s[1] = c

\* A slip: the last occurrence (rfind) where the first is meant.
rfind(s, c) ==
  LET hits == {i \in 0..(Len(s) - 1) : s[i + 1] = c}
  IN  IF hits = {} THEN None ELSE Some(CHOOSE x \in hits : \A y \in hits : x >= y)

find(s, c) ==
  LET hits == {i \in 0..(Len(s) - 1) : s[i + 1] = c}
  IN  IF hits = {} THEN None ELSE Some(Min(hits))

is_char_boundary(s, i) ==
  \/ i = 0
  \/ i = Len(s)
  \/ (0 < i /\ i < Len(s) /\ s[i + 1] # Cont)

\* &s[lo..hi] panics unless lo <= hi <= len and both are char boundaries.
slice_ok(s, lo, hi) ==
  /\ 0 <= lo /\ lo <= hi /\ hi <= Len(s)
  /\ is_char_boundary(s, lo) /\ is_char_boundary(s, hi)

slice(s, lo, hi) == SubSeq(s, lo + 1, hi)

RECURSIVE split(_, _)
split(s, delims) ==
  LET hits == {i \in 1..Len(s) : s[i] \in delims}
  IN  IF hits = {} THEN <<s>>
      ELSE LET i == Min(hits)
           IN  <<SubSeq(s, 1, i - 1)>> \o split(SubSeq(s, i + 1, Len(s)), delims)

AsciiWhitespace == {" ", "\t", "\n", "\f", "\r"}

\* A slip: split(' ') where split_ascii_whitespace is meant.
split_on_space(s) == split(s, {" "})

RECURSIVE split_ascii_whitespace(_)
split_ascii_whitespace(s) ==
  LET word == {i \in 1..Len(s) : s[i] \notin AsciiWhitespace}
  IN  IF word = {} THEN <<>>
      ELSE LET b == Min(word)
               gap == {i \in b..Len(s) : s[i] \in AsciiWhitespace}
               e == IF gap = {} THEN Len(s) + 1 ELSE Min(gap)
           IN  <<SubSeq(s, b, e - 1)>> \o split_ascii_whitespace(SubSeq(s, e, Len(s)))

----
\* The tag stage's closure over one entry kv of the tag block.

\* kv.next().unwrap() twice: the second unwrap panics when kv holds no '='.
TagEntryPanics(kv) == Len(split(kv, {"="})) < 2

TagKey(kv) == split(kv, {"="})[1]

TagValue(kv) ==
  LET v == split(kv, {"="})[2]
  IN  IF v = <<>> THEN None ELSE Some(v)

\* collect() into a HashMap: a later entry replaces an earlier one with its key.
RECURSIVE CollectTags(_, _)
CollectTags(entries, map) ==
  IF entries = <<>> THEN map
  ELSE LET k == TagKey(Head(entries))
           v == TagValue(Head(entries))
       IN  CollectTags(Tail(entries),
                       [x \in (DOMAIN map) \cup {k} |-> IF x = k THEN v ELSE map[x]])

EmptyMap == [x \in {} |-> None]

TagEntries(tags) == split(slice(tags, 1, Len(tags)), {";"})

TagsPanic(tags) == \E n \in 1..Len(TagEntries(tags)) : TagEntryPanics(TagEntries(tags)[n])

ParseTags(tags) == CollectTags(TagEntries(tags), EmptyMap)

----
\* The prefix stage: the block, ':' included, up to the space.

Servername(n) == <<"Servername", n>>
Nick(n, u, h) == <<"Nick", n, u, h>>

PrefixParts(prefix) == split(slice(prefix, 1, Len(prefix)), {"!", "@"})

\* current is msg.prefix before the stage: no other count assigns it.
ParsePrefix(prefix, current) ==
  LET parts == PrefixParts(prefix)
  IN  IF Len(parts) = 1 THEN Some(Servername(parts[1]))
      ELSE IF Len(parts) = 3 THEN Some(Nick(parts[1], parts[2], parts[3]))
      ELSE current

----
\* The params match on text_loc.

ParamsPanic(params_string) ==
  LET text_loc == find(params_string, ":")
  IN  /\ text_loc # None
      /\ text_loc[1] # 0
      /\ ~slice_ok(params_string, 0, text_loc[1] - 1)

\* A slip: the colon arms left out, every param split on whitespace.
ParseParams_NoTrailing(params_string) == split_ascii_whitespace(params_string)

ParseParams(params_string) ==
  LET text_loc == find(params_string, ":")
  IN  IF text_loc = None THEN split_ascii_whitespace(params_string)
      ELSE LET loc == text_loc[1]
           IN  IF loc = 0 THEN <<slice(params_string, 1, Len(params_string))>>
               ELSE Append(split_ascii_whitespace(slice(params_string, 0, loc - 1)),
                           slice(params_string, loc + 1, Len(params_string)))

----
\* ran is a history variable: the stages that have consumed their block.
VARIABLES message, pc, pos_head, pos_tail, msg, result, ran

vars == <<message, pc, pos_head, pos_tail, msg, result, ran>>

DefaultMessage == [tags |-> None, prefix |-> None, command |-> None, params |-> None]

\* pos_tail is declared unassigned; it is written before every read.
Init ==
  /\ message \in Inputs
  /\ pc = "Start"
  /\ pos_head = 0
  /\ pos_tail = 0
  /\ msg = DefaultMessage
  /\ result = "pending"
  /\ ran = <<>>

Fail(err) ==
  /\ pc' = "Err"
  /\ result' = err
  /\ UNCHANGED <<message, pos_head, pos_tail, msg, ran>>

Abort ==
  /\ pc' = "Panic"
  /\ result' = "panic"
  /\ UNCHANGED <<message, pos_head, pos_tail, msg, ran>>

ParseEmpty ==
  /\ pc = "Start"
  /\ is_empty(message)
  /\ Fail(EmptyInput)

ParseBegin ==
  /\ pc = "Start"
  /\ ~is_empty(message)
  /\ pc' = "Tags"
  /\ UNCHANGED <<message, pos_head, pos_tail, msg, result, ran>>

TagsSkip ==
  /\ pc = "Tags"
  /\ ~starts_with(message, "@")
  /\ pc' = "Prefix"
  /\ UNCHANGED <<message, pos_head, pos_tail, msg, result, ran>>

TagsMissingCommand ==
  /\ pc = "Tags"
  /\ starts_with(message, "@")
  /\ find(message, " ") = None
  /\ Fail(MissingCommand)

TagsUnwrapPanic ==
  /\ pc = "Tags"
  /\ starts_with(message, "@")
  /\ find(message, " ") # None
  /\ TagsPanic(slice(message, 0, find(message, " ")[1]))
  /\ Abort

TagsParse ==
  /\ pc = "Tags"
  /\ starts_with(message, "@")
  /\ find(message, " ") # None
  /\ LET i == find(message, " ")[1]
         tags == slice(message, 0, i)
     IN  /\ ~TagsPanic(tags)
         /\ pos_tail' = i
         /\ msg' = [msg EXCEPT !.tags = Some(ParseTags(tags))]
         /\ pos_head' = i + 1
  /\ pc' = "Prefix"
  /\ ran' = Append(ran, "Tags")
  /\ UNCHANGED <<message, result>>

Rest == slice(message, pos_head, Len(message))

PrefixSkip ==
  /\ pc = "Prefix"
  /\ ~starts_with(Rest, ":")
  /\ pc' = "CommandParams"
  /\ UNCHANGED <<message, pos_head, pos_tail, msg, result, ran>>

PrefixMissingCommand ==
  /\ pc = "Prefix"
  /\ starts_with(Rest, ":")
  /\ find(Rest, " ") = None
  /\ Fail(MissingCommand)

PrefixParse ==
  /\ pc = "Prefix"
  /\ starts_with(Rest, ":")
  /\ find(Rest, " ") # None
  /\ LET i == find(Rest, " ")[1]
         tail == pos_head + i
         prefix == slice(message, pos_head, tail)
     IN  /\ pos_tail' = tail
         /\ msg' = [msg EXCEPT !.prefix = ParsePrefix(prefix, @)]
         /\ pos_head' = tail + 1
  /\ pc' = "CommandParams"
  /\ ran' = Append(ran, "Prefix")
  /\ UNCHANGED <<message, result>>

CommandOnly ==
  /\ pc = "CommandParams"
  /\ find(Rest, " ") = None
  /\ msg' = [msg EXCEPT !.command = Some(Rest)]
  /\ pc' = "Done"
  /\ result' = "Ok"
  /\ ran' = Append(ran, "CommandParams")
  /\ UNCHANGED <<message, pos_head, pos_tail>>

ParamsString == slice(Rest, find(Rest, " ")[1] + 1, Len(Rest))

CommandParamsPanic ==
  /\ pc = "CommandParams"
  /\ find(Rest, " ") # None
  /\ ParamsPanic(ParamsString)
  /\ Abort

CommandAndParams ==
  /\ pc = "CommandParams"
  /\ find(Rest, " ") # None
  /\ ~ParamsPanic(ParamsString)
  /\ msg' = [msg EXCEPT !.command = Some(slice(Rest, 0, find(Rest, " ")[1])),
                        !.params = Some(ParseParams(ParamsString))]
  /\ pc' = "Done"
  /\ result' = "Ok"
  /\ ran' = Append(ran, "CommandParams")
  /\ UNCHANGED <<message, pos_head, pos_tail>>

Next ==
  \/ ParseEmpty
  \/ ParseBegin
  \/ TagsSkip
  \/ TagsMissingCommand
  \/ TagsUnwrapPanic
  \/ TagsParse
  \/ PrefixSkip
  \/ PrefixMissingCommand
  \/ PrefixParse
  \/ CommandOnly
  \/ CommandParamsPanic
  \/ CommandAndParams

Spec == Init /\ [][Next]_vars

----
\* Vocabulary of the claims, stated on the input text itself.

Range(f) == {f[i] : i \in DOMAIN f}

Max(S) == CHOOSE x \in S : \A y \in S : x >= y

\* 1-based place of the first c in s, 0 when s holds none.
FirstAt(s, c) ==
  IF \E i \in 1..Len(s) : s[i] = c
  THEN CHOOSE i \in 1..Len(s) : s[i] = c /\ \A j \in 1..(i - 1) : s[j] # c
  ELSE 0

Before(s, c) == SubSeq(s, 1, FirstAt(s, c) - 1)
After(s, c) == SubSeq(s, FirstAt(s, c) + 1, Len(s))

\* The whitespace-delimited tokens of s, read byte by byte.
RECURSIVE Scan(_, _, _)
Scan(s, cur, acc) ==
  LET flushed == IF cur = <<>> THEN acc ELSE Append(acc, cur)
  IN  IF s = <<>> THEN flushed
      ELSE IF Head(s) \in AsciiWhitespace THEN Scan(Tail(s), <<>>, flushed)
      ELSE Scan(Tail(s), Append(cur, Head(s)), acc)

Tokens(s) == Scan(s, <<>>, <<>>)

Finished == pc \in {"Done", "Err", "Panic"}

\* The input after a leading tag block, if the line has one.
HasTagBlock(m) == starts_with(m, "@") /\ FirstAt(m, " ") > 0
AfterTags(m) == IF HasTagBlock(m) THEN After(m, " ") ELSE m

\* The entries of the line's tag block, and the last entry with each key.
Entries(m) == split(SubSeq(m, 2, FirstAt(m, " ") - 1), {";"})
KeyOf(e) == IF FirstAt(e, "=") = 0 THEN e ELSE Before(e, "=")
RawValueOf(e) == IF FirstAt(e, "=") = 0 THEN <<>> ELSE After(e, "=")
LastOfKey(m, n) ==
  \A k \in (n + 1)..Len(Entries(m)) : KeyOf(Entries(m)[k]) # KeyOf(Entries(m)[n])

\* The input after the consumed tag and prefix blocks, and its parameter string.
Remainder == SubSeq(message, pos_head + 1, Len(message))
ParamString == After(Remainder, " ")

\* The prefix block the prefix stage consumed, without its ':'.
PrefixBlock == SubSeq(message, Len(message) - Len(AfterTags(message)) + 2, pos_tail)
PrefixDelims == {i \in 1..Len(PrefixBlock) : PrefixBlock[i] \in {"!", "@"}}
PrefixCount == Cardinality(PrefixDelims) + 1
PrefixByArity ==
  IF PrefixCount = 1 THEN Some(Servername(PrefixBlock))
  ELSE IF PrefixCount = 3
       THEN LET i == Min(PrefixDelims)
                j == Max(PrefixDelims)
            IN  Some(Nick(SubSeq(PrefixBlock, 1, i - 1),
                          SubSeq(PrefixBlock, i + 1, j - 1),
                          SubSeq(PrefixBlock, j + 1, Len(PrefixBlock))))
       ELSE None

----
\* C1: Message::parse never panics: whatever the input, the call returns a
\* Message or one of the two error values.
C1_NeverPanics == result \in {"pending", "Ok", EmptyInput, MissingCommand}

\* C2: parse returns EmptyInput exactly for the empty input, MissingCommand
\* exactly when the input starts with '@' and has no space or the text after
\* any tag block starts with ':' and has no space, and no other error.
C2_ErrorsExactly ==
  Finished =>
    /\ (result = EmptyInput) <=> (Len(message) = 0)
    /\ (result = MissingCommand) <=>
         \/ (starts_with(message, "@") /\ FirstAt(message, " ") = 0)
         \/ (starts_with(AfterTags(message), ":") /\ FirstAt(AfterTags(message), " ") = 0)
    /\ pc = "Err" => result \in {EmptyInput, MissingCommand}

\* The same on the runs that return: only an abort separates C2 from the code.
C2_WhenReturning == (pc \in {"Done", "Err"}) => C2_ErrorsExactly

\* C3: a detected prefix block gives Servername for 1 part, Nick for 3 parts
\* and no prefix for any other count, in which case parsing still goes on
\* to the command and succeeds; with no ':' at the cursor the prefix is None.
C3_PrefixArity ==
  /\ ("Prefix" \in Range(ran)) =>
       /\ msg.prefix = PrefixByArity
       /\ (PrefixCount \notin {1, 3}) => pc \in {"CommandParams", "Done"}
  /\ ("Prefix" \notin Range(ran)) => msg.prefix = None

\* The arity rule alone, without the claim that the parse then succeeds.
C3_ArityRule ==
  /\ ("Prefix" \in Range(ran)) => msg.prefix = PrefixByArity
  /\ ("Prefix" \notin Range(ran)) => msg.prefix = None

\* C4: every tag entry is split on its first '=' only: the key is the text
\* before it and the stored value the whole text after it, further '=' kept.
C4_FirstEqualsOnly ==
  ("Tags" \in Range(ran)) =>
    \A n \in 1..Len(Entries(message)) :
      LET e == Entries(message)[n]
      IN  (LastOfKey(message, n) /\ RawValueOf(e) # <<>>) =>
            /\ KeyOf(e) \in DOMAIN msg.tags[1]
            /\ msg.tags[1][KeyOf(e)] = Some(RawValueOf(e))

\* C5: a valueless tag entry, "key=" or bare "key", is stored as key -> None,
\* both forms alike, and no parse stores Some("") as a tag value.
C5_ValuelessIsNone ==
  (HasTagBlock(message) /\ pc \notin {"Start", "Tags"}) =>
    /\ msg.tags # None
    /\ \A n \in 1..Len(Entries(message)) :
         LET e == Entries(message)[n]
         IN  (LastOfKey(message, n) /\ RawValueOf(e) = <<>>) =>
               /\ KeyOf(e) \in DOMAIN msg.tags[1]
               /\ msg.tags[1][KeyOf(e)] = None
    /\ \A k \in DOMAIN msg.tags[1] : msg.tags[1][k] # Some(<<>>)

\* The part of C5 the entries with a '=' satisfy: "key=" is stored as None
\* and Some("") is never stored.
C5_EmptyValueIsNone ==
  (msg.tags # None) =>
    /\ \A n \in 1..Len(Entries(message)) :
         LET e == Entries(message)[n]
         IN  (LastOfKey(message, n) /\ RawValueOf(e) = <<>>) =>
               msg.tags[1][KeyOf(e)] = None
    /\ \A k \in DOMAIN msg.tags[1] : msg.tags[1][k] # Some(<<>>)

\* C6: on success the command is never absent; without a space in the
\* remainder the command is the whole remainder and params is None, with one
\* the command is the text before the first space and params is Some.
C6_CommandAndParams ==
  (pc = "Done") =>
    /\ msg.command # None
    /\ (\A i \in 1..Len(Remainder) : Remainder[i] # " ") =>
         (msg.command = Some(Remainder) /\ msg.params = None)
    /\ (\E i \in 1..Len(Remainder) : Remainder[i] = " ") =>
         (msg.command = Some(Before(Remainder, " ")) /\ msg.params # None)

C6_Witness ==
  /\ pc = "Done"
  /\ msg.tags # None
  /\ msg.prefix # None
  /\ msg.command = Some(<<"a">>)
  /\ msg.params = Some(<<<<"a">>>>)

\* C7: with the first ':' of the parameter string at a position > 0, the
\* middle params are the whitespace tokens of the whole text before that
\* colon, nothing lost, followed by one trailing param.
C7_MiddleBeforeColon ==
  (pc = "Done" /\ msg.params # None /\ FirstAt(ParamString, ":") > 1) =>
    msg.params[1] = Append(Tokens(Before(ParamString, ":")), After(ParamString, ":"))

C9_MiddleTokens ==
  (pc = "Done" /\ msg.params # None) =>
    LET params == msg.params[1]
        Middle(t) == /\ t # <<>>
                     /\ t[1] # ":"
                     /\ \A i \in 1..Len(t) : t[i] \notin AsciiWhitespace
    IN  /\ \A n \in 1..(Len(params) - 1) : Middle(params[n])
        /\ (Len(params) >= 1 /\ FirstAt(ParamString, ":") = 0) =>
             Middle(params[Len(params)])

C9_Witness ==
  /\ pc = "Done"
  /\ msg.params = Some(<<<<"a">>, <<>>>>)
  /\ "\t" \in Range(message)

\* The order of the stages; the three ways a run ends share the last rank.
StageRank(p) ==
  CASE p = "Start" -> 0
    [] p = "Tags" -> 1
    [] p = "Prefix" -> 2
    [] p = "CommandParams" -> 3
    [] OTHER -> 4

\* One step of a run: a later stage, the cursor no further back and within
\* the input, the input untouched, the stages run so far in order.
C10_ForwardStep ==
  /\ StageRank(pc') > StageRank(pc)
  /\ pos_head' >= pos_head
  /\ pos_head' <= Len(message')
  /\ message' = message
  /\ \A n \in 1..(Len(ran') - 1) : StageRank(ran'[n]) < StageRank(ran'[n + 1])

\* C10: the stages run strictly forward, Start, Tags, Prefix, CommandParams,
\* Done, with no re-entry; the cursor never decreases and never exceeds the
\* input length; every run ends in Done or in one of the two errors.
C10_ForwardOnly == [][C10_ForwardStep /\ (StageRank(pc') = 4 => pc' \in {"Done", "Err"})]_vars

\* The forward progress alone, whatever the run ends in.
C10_CursorForward == [][C10_ForwardStep]_vars

====
